---------------------------- MODULE Spec2Model ----------------------------
(***************************************************************************)
(* Model of the fractal generation engine of src/main.rs: the 2x2          *)
(* permutation algebra (Permutation), the colour model (Color, f32         *)
(* channels), validate_pattern and generate_fractal.                       *)
(*                                                                         *)
(* f32 is modelled as a binary floating-point format with round-to-        *)
(* nearest-even, scaled down to MantBits significand bits and a smallest   *)
(* positive value of 2^-FracBits.  A float is the integer n standing for   *)
(* n / 2^FracBits.                                                         *)
(***************************************************************************)
EXTENDS Integers, Sequences, FiniteSets, TLC

VARIABLES
    \* Permutation::compose / Permutation::apply on chosen arguments
    pa, pb, pg, composedOut, sequentialOut,
    \* validate_pattern on a chosen pattern
    vpattern, vresult,
    \* load_pattern_from_file followed by generate_fractal
    pattern, iterations, decay, pc, final_size, result, blend, current_size,
    cursor, pixel, alpha, blend_factor, new_perm_reset,
    \* history of the run: sweeps completed, the grid as the sweep began,
    \* whether every cell read so far still held its start-of-sweep value,
    \* whether a cell has been expanded, and the returned colour grid
    sweeps, snapshot, readFresh, wrote, output

permVars == <<pa, pb, pg, composedOut, sequentialOut>>
valVars  == <<vpattern, vresult>>
genVars  == <<pattern, iterations, decay, pc, final_size, result, blend,
              current_size, cursor, pixel, alpha, blend_factor, new_perm_reset,
              sweeps, snapshot, readFresh, wrote, output>>
vars     == <<permVars, valVars, genVars>>

\* ------------------------------------------------------------------ bounds
\* significand width of the scaled-down f32 (f32 itself has 24)
MantBits == 3
\* the smallest positive float is 2^-FracBits (f32 itself: 2^-149)
FracBits == 5
\* generate_fractal is run for iterations in 1..MaxIter
MaxIter == 3
\* the grids handed to Permutation::apply hold elements of 0..MaxElem
MaxElem == 1
\* the coordinates of a deserialized mapping range over 0..MaxCoord
MaxCoord == 2

\* ------------------------------------------------------------ f32 arithmetic
RECURSIVE Pow2(_)
Pow2(k) == IF k <= 0 THEN 1 ELSE 2 * Pow2(k - 1)

\* the float 1.0
One == Pow2(FracBits)

\* number of bits of n >= 0 (0 for n = 0)
RECURSIVE BitLen(_)
BitLen(n) == IF n = 0 THEN 0 ELSE 1 + BitLen(n \div 2)

\* round q + r/step to the nearest integer, ties to even
RoundHalfEven(n, step) ==
    LET q == n \div step
        r == n % step
    IN  IF 2 * r < step THEN q
        ELSE IF 2 * r > step THEN q + 1
        ELSE IF q % 2 = 0 THEN q ELSE q + 1

\* The float nearest to n / 2^(FracBits + sub), n >= 0: its significand is
\* cut to MantBits bits, and nothing is finer than 2^-FracBits.
FRoundPos(n, sub) ==
    LET excess == BitLen(n) - MantBits
        shift  == IF excess > sub THEN excess ELSE sub
        step   == Pow2(shift)
    IN  (RoundHalfEven(n, step) * step) \div Pow2(sub)

FRound(n, sub) == IF n < 0 THEN -FRoundPos(-n, sub) ELSE FRoundPos(n, sub)

\* f32 +, - and *
FAdd(a, b) == FRound(a + b, 0)
FSub(a, b) == FRound(a - b, 0)
FMul(a, b) == FRound(a * b, FracBits)

\* the f32 read from the decimal literal k/10 (0.2, 0.4, 1.5, ...)
Lit(k) == FRound((2 * k * One + 10) \div 20, 0)

\* --------------------------------------------------------------- Permutation
\* the coordinates (row, col) of the 2x2 grid
Cells == {<<y, x>> : y \in 0..1, x \in 0..1}

\* Permutation { mapping: [(usize, usize); 4] }: entry i + 1 is mapping[i]
Identity  == << <<0,0>>, <<0,1>>, <<1,0>>, <<1,1>> >>
Rotate90  == << <<0,1>>, <<1,1>>, <<0,0>>, <<1,0>> >>
Rotate270 == << <<1,0>>, <<0,0>>, <<1,1>>, <<0,1>> >>
FlipH     == << <<0,1>>, <<0,0>>, <<1,1>>, <<1,0>> >>
FlipV     == << <<1,0>>, <<1,1>>, <<0,0>>, <<0,1>> >>

NamedPerms == {Identity, Rotate90, Rotate270, FlipH, FlipV}

\* the bijections on the 4 cells
Bijections ==
    {m \in [1..4 -> Cells] : \A i, j \in 1..4 : i # j => m[i] # m[j]}

\* idx = y * 2 + x
Idx(c) == c[1] * 2 + c[2]

\* compose: result[i] = other.mapping[idx(self.mapping[i])]
ComposeOffByOne(self, other) == [i \in 1..4 |-> other[((Idx(self[i]) + 1) % 4) + 1]]
ComposeReversed(self, other) == [i \in 1..4 |-> self[Idx(other[i]) + 1]]
Compose(self, other) == [i \in 1..4 |-> other[Idx(self[i]) + 1]]

\* apply: result starts filled with grid[0][0]; for i in 0..4 the element
\* at (i / 2, i % 2) is written to mapping[i], later writes winning
RECURSIVE ApplyLoop(_, _, _, _)
ApplyLoop(self, grid, res, i) ==
    IF i = 4 THEN res
    ELSE LET from == <<i \div 2, i % 2>>
             to   == self[i + 1]
         IN  ApplyLoop(self, grid,
                       [res EXCEPT ![to[1]][to[2]] = grid[from[1]][from[2]]],
                       i + 1)

Apply(self, grid) ==
    ApplyLoop(self, grid, [y \in 0..1 |-> [x \in 0..1 |-> grid[0][0]]], 0)


\* ------------------------------------------------------------------- Color
Color(r, g, b, a) == [r |-> r, g |-> g, b |-> b, a |-> a]

\* lerp: self.c + (other.c - self.c) * t on each of the four channels
\* a lerp that starts from the other colour: other.c + (other.c - self.c) * t
LerpChanFromOther(a, b, t) == FAdd(b, FMul(FSub(b, a), t))
LerpChan(a, b, t) == FAdd(a, FMul(FSub(b, a), t))
Lerp(self, other, t) ==
    [r |-> LerpChan(self.r, other.r, t), g |-> LerpChan(self.g, other.g, t),
     b |-> LerpChan(self.b, other.b, t), a |-> LerpChan(self.a, other.a, t)]

\* ----------------------------------------------------------- Pixel, Pattern
Pixel(color, perm) == [color |-> color, perm |-> perm]

\* Pattern { pixels: [[Pixel; 2]; 2] } from its four pixels in row-major order
MkPattern(px) == [y \in 0..1 |-> [x \in 0..1 |-> px[y * 2 + x + 1]]]

\* ---------------------------------------------------------- validate_pattern
ValidOk       == "Ok"
ErrColor      == "Color values must be between 0.0 and 1.0"
ErrCoord      == "Permutation mapping coordinates must be less than 2"
ErrDuplicate  == "Permutation mapping contains duplicate positions"
ErrIncomplete == "Permutation mapping must use all positions"

ColorOutOfRangeNoAlpha(c) ==
    \/ c.r < 0 \/ c.r > One
    \/ c.g < 0 \/ c.g > One
    \/ c.b < 0 \/ c.b > One
\* the test of lines 254-257: some channel is below 0.0 or above 1.0
ColorOutOfRange(c) ==
    \/ c.r < 0 \/ c.r > One
    \/ c.g < 0 \/ c.g > One
    \/ c.b < 0 \/ c.b > One
    \/ c.a < 0 \/ c.a > One

\* the loop over the mapping's entries, from entry i on, with used_positions
\* as left by the entries before it; then the all-positions-used test
\* a validator that ranges over the whole mapping before looking for duplicates
RECURSIVE CheckMappingRangeFirst(_, _, _)
CheckMappingRangeFirst(mapping, used, i) ==
    IF \E j \in 1..4 : mapping[j][1] >= 2 \/ mapping[j][2] >= 2 THEN ErrCoord
    ELSE IF i = 4
    THEN IF \A c \in Cells : used[c] THEN ValidOk ELSE ErrIncomplete
    ELSE LET c == mapping[i + 1]
         IN  IF used[c] THEN ErrDuplicate
             ELSE CheckMappingRangeFirst(mapping, [used EXCEPT ![c] = TRUE], i + 1)

\* a validator whose loop leaves out the test of used_positions[y][x]
RECURSIVE CheckMappingNoDuplicateTest(_, _, _)
CheckMappingNoDuplicateTest(mapping, used, i) ==
    IF i = 4
    THEN IF \A c \in Cells : used[c] THEN ValidOk ELSE ErrIncomplete
    ELSE LET c == mapping[i + 1]
         IN  IF c[1] >= 2 \/ c[2] >= 2 THEN ErrCoord
             ELSE CheckMappingNoDuplicateTest(mapping,
                                              [used EXCEPT ![c] = TRUE], i + 1)

RECURSIVE CheckMapping(_, _, _)
CheckMapping(mapping, used, i) ==
    IF i = 4
    THEN IF \A c \in Cells : used[c] THEN ValidOk ELSE ErrIncomplete
    ELSE LET c == mapping[i + 1]
         IN  IF c[1] >= 2 \/ c[2] >= 2 THEN ErrCoord
             ELSE IF used[c] THEN ErrDuplicate
             ELSE CheckMapping(mapping, [used EXCEPT ![c] = TRUE], i + 1)

\* the second loop over the pixels, row-major, from pixel k on
RECURSIVE CheckPerms(_, _)
CheckPerms(p, k) ==
    IF k = 4 THEN ValidOk
    ELSE LET r == CheckMapping(p[k \div 2][k % 2].perm,
                               [c \in Cells |-> FALSE], 0)
         IN  IF r # ValidOk THEN r ELSE CheckPerms(p, k + 1)

ValidatePattern(p) ==
    IF \E c \in Cells : ColorOutOfRange(p[c[1]][c[2]].color)
    THEN ErrColor
    ELSE CheckPerms(p, 0)


\* ---------------------------------------------------------- generate_fractal
\* Color::new(0.0, 0.0, 0.0, 0.0) with Permutation::identity()
BlankPixel == Pixel(Color(0, 0, 0, 0), Identity)

\* vec![vec![blank; final_size]; final_size], then result[y][x] = base[y][x]
\* for y, x in 0..2
SeedGridTransposed(size, p) ==
    [y \in 0..(size - 1) |-> [x \in 0..(size - 1) |->
        IF y < 2 /\ x < 2 THEN p[x][y] ELSE BlankPixel]]
SeedGrid(size, p) ==
    [y \in 0..(size - 1) |-> [x \in 0..(size - 1) |->
        IF y < 2 /\ x < 2 THEN p[y][x] ELSE BlankPixel]]

\* the loop test: while current_size < final_size
LoopTestInclusive(cs, fs) == cs <= fs
LoopTest(cs, fs) == cs < fs

\* for y in (0..current_size).rev() { for x in (0..current_size).rev() }:
\* the cell visited at step n of the sweep, n = 0 first
RevOrderAscending(n, size) == <<n \div size, n % size>>
RevOrder(n, size) ==
    <<(size * size - 1 - n) \div size, (size * size - 1 - n) % size>>

\* blend_factor = 1.0 - (1.0 - blend) * alpha
BlendFactorSwapped(bl, al) == FSub(One, FMul(bl, FSub(One, al)))
BlendFactor(bl, al) == FSub(One, FMul(FSub(One, bl), al))

\* the test current_size * 2 < final_size: the composed permutation is kept
KeepPermEarlyReset(cs, fs) == cs * 4 < fs
KeepPerm(cs, fs) == cs * 2 < fs

\* The body of the loops over (y, x) for one cell holding px: the four
\* pixels written at (y_start + dy, x_start + dx), as a 2x2 grid.
ExpandPixel(px, p, bf, keep) ==
    LET color         == [px.color EXCEPT !.a = One]
        permuted_base == Apply(px.perm, p)
    IN  [dy \in 0..1 |-> [dx \in 0..1 |->
            LET base_pixel == permuted_base[dy][dx]
            IN  Pixel(Lerp(color, base_pixel.color, bf),
                      IF keep THEN Compose(px.perm, base_pixel.perm)
                      ELSE Identity)]]

\* result after the four writes of cell (cy, cx); a write outside the grid
\* is an index out of bounds
WriteBlock(grid, cy, cx, block) ==
    [y \in DOMAIN grid |-> [x \in DOMAIN grid |->
        IF y \div 2 = cy /\ x \div 2 = cx THEN block[y % 2][x % 2]
        ELSE grid[y][x]]]

BlockInside(size, cy, cx) == 2 * cy + 1 < size /\ 2 * cx + 1 < size

\* result.into_iter().map(|row| row.into_iter().map(|pixel| pixel.color))
ExtractColors(grid) ==
    [y \in DOMAIN grid |-> [x \in DOMAIN grid |-> grid[y][x].color]]


\* ------------------------------------------------------------------ inputs
\* the colours of create_base_pattern and two translucent ones
Blue        == Color(Lit(2), Lit(4), Lit(6), One)
Bronze      == Color(Lit(6), Lit(4), Lit(2), One)
Black       == Color(0, 0, 0, One)
Transparent == Color(0, 0, 0, 0)
Haze        == Color(One, Lit(1), Lit(5), Lit(5))
Smoke       == Color(Lit(3), One, 0, Lit(1))

BasePattern ==
    MkPattern(<<Pixel(Blue, Rotate90), Pixel(Bronze, FlipH),
                Pixel(Black, FlipV), Pixel(Transparent, Identity)>>)

ColorChoices == {<<Blue, Bronze, Black, Transparent>>,
                 <<Haze, Blue, Transparent, Smoke>>}

PermChoices ==
    {<<Rotate90, FlipH, FlipV, Identity>>,
     <<Identity, Identity, Identity, Identity>>}
    \cup {<<m, FlipH, Identity, Rotate270>> : m \in Bijections}

\* two patterns the validator turns away
BadColorPattern ==
    [BasePattern EXCEPT ![0][1].color.g = Lit(15)]
BadPermPattern ==
    [BasePattern EXCEPT ![1][0].perm = << <<0,0>>, <<0,0>>, <<1,0>>, <<1,1>> >>]

GenPatterns ==
    {MkPattern([i \in 1..4 |-> Pixel(cs[i], ps[i])]) :
        cs \in ColorChoices, ps \in PermChoices}
    \cup {BadColorPattern, BadPermPattern}

\* decay factors in [0, 1]: 0.0, the smallest positive float, 0.3, 0.5, 1.0
Decays == {0, 1, Lit(3), Lit(5), One}


\* ---------------------------------------- the three groups of state at rest
PermIdle ==
    /\ pa = Identity /\ pb = Identity /\ pg = <<>>
    /\ composedOut = <<>> /\ sequentialOut = <<>>

ValIdle == vpattern = <<>> /\ vresult = ""

GenLocalsInit ==
    /\ final_size = 0 /\ result = <<>> /\ blend = One /\ current_size = 0
    /\ cursor = 0 /\ pixel = BlankPixel /\ alpha = 0 /\ blend_factor = 0
    /\ new_perm_reset = FALSE
    /\ sweeps = 0 /\ snapshot = <<>> /\ readFresh = TRUE /\ wrote = FALSE
    /\ output = <<>>

GenIdle ==
    /\ pattern = <<>> /\ iterations = 0 /\ decay = 0 /\ pc = "idle"
    /\ GenLocalsInit

\* ------------------------------------- load_pattern, then generate_fractal
Init ==
    /\ pattern \in GenPatterns
    /\ iterations \in 0..MaxIter
    /\ decay \in Decays
    /\ pc = "load"
    /\ GenLocalsInit
    /\ PermIdle /\ ValIdle

\* load_pattern_from_file: validate_pattern succeeds, the pattern is kept and
\* update_preview calls generate_fractal
LoadOk ==
    /\ pc = "load"
    /\ ValidatePattern(pattern) = ValidOk
    /\ pc' = "start"
    /\ UNCHANGED <<permVars, valVars>>
    /\ UNCHANGED <<pattern, iterations, decay, final_size, result, blend,
                   current_size, cursor, pixel, alpha, blend_factor,
                   new_perm_reset, sweeps, snapshot, readFresh, wrote, output>>

\* load_pattern_from_file: validate_pattern fails, nothing is generated
LoadRejected ==
    /\ pc = "load"
    /\ ValidatePattern(pattern) # ValidOk
    /\ pc' = "rejected"
    /\ UNCHANGED <<permVars, valVars>>
    /\ UNCHANGED <<pattern, iterations, decay, final_size, result, blend,
                   current_size, cursor, pixel, alpha, blend_factor,
                   new_perm_reset, sweeps, snapshot, readFresh, wrote, output>>

\* generate_fractal up to the loop: final_size = 1 << iterations, the grid is
\* allocated and seeded, blend = 1.0, current_size = 2.  Seeding a grid of
\* side 1 indexes out of bounds.
Start ==
    /\ pc = "start"
    /\ final_size' = Pow2(iterations)
    /\ IF final_size' < 2
       THEN /\ pc' = "panic"
            /\ UNCHANGED <<result, blend, current_size>>
       ELSE /\ result' = SeedGrid(final_size', pattern)
            /\ blend' = One
            /\ current_size' = 2
            /\ pc' = "while"
    /\ UNCHANGED <<permVars, valVars>>
    /\ UNCHANGED <<pattern, iterations, decay, cursor, pixel, alpha,
                   blend_factor, new_perm_reset, sweeps, snapshot, readFresh,
                   wrote, output>>

\* the loop test succeeds: blend *= decay and the sweep over the cells begins
SweepBegin ==
    /\ pc = "while"
    /\ LoopTest(current_size, final_size)
    /\ blend' = FMul(blend, decay)
    /\ cursor' = 0
    /\ snapshot' = result
    /\ pc' = "cells"
    /\ UNCHANGED <<permVars, valVars>>
    /\ UNCHANGED <<pattern, iterations, decay, final_size, result,
                   current_size, pixel, alpha, blend_factor, new_perm_reset,
                   sweeps, readFresh, wrote, output>>

\* one pass of the body of the loops over (y, x); after the last cell
\* current_size = new_size.  A write outside the grid is an index out of
\* bounds.
ExpandCell ==
    /\ pc = "cells"
    /\ LET c    == RevOrder(cursor, current_size)
           keep == KeepPerm(current_size, final_size)
           px   == result[c[1]][c[2]]
           bf   == BlendFactor(blend, px.color.a)
           \* the four writes stay inside the grid; this is the sweep's last cell
           inside == BlockInside(final_size, c[1], c[2])
           last   == cursor + 1 = current_size * current_size
       IN  /\ pixel' = px
           /\ alpha' = px.color.a
           /\ blend_factor' = bf
           /\ new_perm_reset' = ~keep
           /\ readFresh' = (readFresh /\ px = snapshot[c[1]][c[2]])
           \* the 2x2 block of new pixels is computed once, then written
           /\ \E block \in {ExpandPixel(px, pattern, bf, keep)} :
                 result' = IF inside THEN WriteBlock(result, c[1], c[2], block)
                           ELSE result
           /\ wrote' = (wrote \/ inside)
           /\ cursor' = IF inside /\ ~last THEN cursor + 1 ELSE cursor
           /\ current_size' = IF inside /\ last THEN current_size * 2
                              ELSE current_size
           /\ sweeps' = IF inside /\ last THEN sweeps + 1 ELSE sweeps
           /\ pc' = IF ~inside THEN "panic"
                    ELSE IF last THEN "while" ELSE "cells"
    /\ UNCHANGED <<permVars, valVars>>
    /\ UNCHANGED <<pattern, iterations, decay, final_size, blend, snapshot,
                   output>>

\* the loop test fails: the colours are extracted and returned
Return ==
    /\ pc = "while"
    /\ ~LoopTest(current_size, final_size)
    /\ output' = ExtractColors(result)
    /\ pc' = "done"
    /\ UNCHANGED <<permVars, valVars>>
    /\ UNCHANGED <<pattern, iterations, decay, final_size, result, blend,
                   current_size, cursor, pixel, alpha, blend_factor,
                   new_perm_reset, sweeps, snapshot, readFresh, wrote>>

Next == LoadOk \/ LoadRejected \/ Start \/ SweepBegin \/ ExpandCell \/ Return

Spec == Init /\ [][Next]_vars


\* ------------------------------ Permutation::compose and Permutation::apply
\* the 2x2 grids handed to apply: every grid over 0..MaxElem, and the grid
\* whose four elements differ
IndexGrid == [y \in 0..1 |-> [x \in 0..1 |-> MaxElem + 1 + y * 2 + x]]
PermGrids == [0..1 -> [0..1 -> 0..MaxElem]] \cup {IndexGrid}

InitPerm ==
    /\ pa \in Bijections
    /\ pb \in Bijections
    /\ pg \in PermGrids
    /\ composedOut = <<>>
    /\ sequentialOut = <<>>
    /\ ValIdle /\ GenIdle

\* a.compose(&b).apply(g)
ApplyComposed ==
    /\ composedOut = <<>>
    /\ composedOut' = Apply(Compose(pa, pb), pg)
    /\ UNCHANGED <<pa, pb, pg, sequentialOut, valVars, genVars>>

\* b.apply(a.apply(g))
ApplySequential ==
    /\ sequentialOut = <<>>
    /\ sequentialOut' = Apply(pb, Apply(pa, pg))
    /\ UNCHANGED <<pa, pb, pg, composedOut, valVars, genVars>>

NextPerm == ApplyComposed \/ ApplySequential

SpecPerm == InitPerm /\ [][NextPerm]_vars

\* ---------------------------------------------------------- validate_pattern
\* what deserialization can deliver: any f32 channels, any usize coordinates
Coords == (0..MaxCoord) \X (0..MaxCoord)
AllMappings == [1..4 -> Coords]

\* channel values around the two ends of [0, 1]: -2^-FracBits, 0.0, 0.5, 1.0,
\* the float after 1.0, 1.5
EdgeValues == {-1, 0, Lit(5), One, One + Pow2(FracBits - MantBits + 1), Lit(15)}

SetChannel(c, ch, v) ==
    CASE ch = "r" -> [c EXCEPT !.r = v]
      [] ch = "g" -> [c EXCEPT !.g = v]
      [] ch = "b" -> [c EXCEPT !.b = v]
      [] ch = "a" -> [c EXCEPT !.a = v]

\* a few mappings: two bijections, a coordinate (2,0), two sources on (0,0),
\* a duplicate ahead of a coordinate out of range, and the reverse
MappingChoices ==
    {Identity, Rotate90,
     << <<0,0>>, <<2,0>>, <<1,0>>, <<1,1>> >>,
     << <<0,0>>, <<0,0>>, <<1,0>>, <<1,1>> >>,
     << <<0,1>>, <<0,1>>, <<0,2>>, <<1,1>> >>,
     << <<0,2>>, <<1,1>>, <<1,1>>, <<0,0>> >>}

ValidateInputs ==
    \* one pixel with every mapping
    {[BasePattern EXCEPT ![0][1].perm = m] : m \in AllMappings}
    \* every pixel with each of the mapping choices
    \cup {MkPattern([i \in 1..4 |-> Pixel(Blue, ms[i])]) :
            ms \in [1..4 -> MappingChoices]}
    \* one channel of one pixel at each edge value, beside a bad mapping or not
    \cup {[BasePattern EXCEPT ![c[1]][c[2]].color = SetChannel(@, ch, v),
                               ![0][0].perm = m] :
            c \in Cells, ch \in {"r", "g", "b", "a"}, v \in EdgeValues,
            m \in MappingChoices}

InitValidate ==
    /\ vpattern \in ValidateInputs
    /\ vresult = ""
    /\ PermIdle /\ GenIdle

\* validate_pattern(&pattern)
Validate ==
    /\ vresult = ""
    /\ vresult' = ValidatePattern(vpattern)
    /\ UNCHANGED <<vpattern, permVars, genVars>>

NextValidate == Validate

SpecValidate == InitValidate /\ [][NextValidate]_vars


\* =================================================================== claims
\* ------------------------------------------------------------------------
\* C1: for bijections a, b and every 2x2 grid g,
\* apply(compose(a, b), g) = apply(b, apply(a, g)): compose(a, b) is
\* "a first, then b".
C1_ComposeIsAThenB ==
    (composedOut # <<>> /\ sequentialOut # <<>>) => composedOut = sequentialOut

\* both sides computed for two symmetries that do not commute, on a grid of
\* four different elements that the composition moves
C1_Witness ==
    /\ composedOut # <<>> /\ sequentialOut # <<>>
    /\ pg = IndexGrid
    /\ Compose(pa, pb) # Compose(pb, pa)
    /\ composedOut # pg

\* ------------------------------------------------------------------------
\* what section 4.3 of the specification asks of a pattern
InUnit(v) == 0 <= v /\ v <= One
ColorsInRange(p) ==
    \A c \in Cells :
        LET col == p[c[1]][c[2]].color
        IN  InUnit(col.r) /\ InUnit(col.g) /\ InUnit(col.b) /\ InUnit(col.a)
CoordsInRange(m) == \A i \in 1..4 : m[i] \in Cells
HitsEachOnce(m) ==
    \A d \in Cells : Cardinality({i \in 1..4 : m[i] = d}) = 1
HasDuplicate(m) == \E i, j \in 1..4 : i # j /\ m[i] = m[j]
PermsOf(p) == {p[c[1]][c[2]].perm : c \in Cells}

\* C2: validate_pattern succeeds exactly when every channel of every pixel is
\* in [0, 1] and every mapping uses coordinates of {0,1} x {0,1} only and hits
\* each of the 4 destinations once; otherwise it returns a ValidationError.
C2_AcceptsExactlyTheValid ==
    vresult # "" =>
        /\ vresult \in {ValidOk, ErrColor, ErrCoord, ErrDuplicate, ErrIncomplete}
        /\ vresult = ValidOk <=>
              /\ ColorsInRange(vpattern)
              /\ \A m \in PermsOf(vpattern) : CoordsInRange(m) /\ HitsEachOnce(m)

\* a pattern whose colours are in range and one of whose mappings has only 3
\* distinct destinations, all in range, has been turned away
C2_Witness ==
    /\ vresult \notin {"", ValidOk}
    /\ ColorsInRange(vpattern)
    /\ \E m \in PermsOf(vpattern) :
          CoordsInRange(m) /\ Cardinality({m[i] : i \in 1..4}) = 3

\* ------------------------------------------------------------------------
\* the failure of the lowest-numbered violated rule, the rules being (1)
\* colour range, (2) coordinate range, (3) duplicate destination, (4)
\* incomplete mapping, each taken over the whole pattern
LowestRuleVerdict(p) ==
    IF ~ColorsInRange(p) THEN ErrColor
    ELSE IF \E m \in PermsOf(p) : ~CoordsInRange(m) THEN ErrCoord
    ELSE IF \E m \in PermsOf(p) : HasDuplicate(m) THEN ErrDuplicate
    ELSE IF \E m \in PermsOf(p) : ~HitsEachOnce(m) THEN ErrIncomplete
    ELSE ValidOk

\* C3 as claimed: the failure returned is that of the lowest-numbered
\* violated rule.
C3_LowestRuleFirst ==
    vresult # "" => vresult = LowestRuleVerdict(vpattern)

\* entry i of mapping m is out of range, or repeats an earlier destination
BadEntry(m, i) == m[i] \notin Cells \/ \E j \in 1..(i - 1) : m[j] = m[i]
PermAt(p, n) == p[n \div 2][n % 2].perm
ScanOrderVerdict(p) ==
    IF ~ColorsInRange(p) THEN ErrColor
    ELSE IF \A n \in 0..3 : \A i \in 1..4 : ~BadEntry(PermAt(p, n), i) THEN ValidOk
    ELSE LET n == CHOOSE n1 \in 0..3 :
                    /\ \E i \in 1..4 : BadEntry(PermAt(p, n1), i)
                    /\ \A n2 \in 0..(n1 - 1) :
                          \A i \in 1..4 : ~BadEntry(PermAt(p, n2), i)
             m == PermAt(p, n)
             i == CHOOSE i1 \in 1..4 :
                    /\ BadEntry(m, i1)
                    /\ \A i2 \in 1..(i1 - 1) : ~BadEntry(m, i2)
         IN  IF m[i] \notin Cells THEN ErrCoord ELSE ErrDuplicate

\* C3 as amended: the colour range of every pixel is checked first; then the
\* pixels are scanned in row-major order and the entries of each mapping in
\* order, and the failure is that of the first entry that is out of range
\* (coordinate out of range) or repeats an earlier destination of its mapping
\* (duplicate mapping).
C3_FirstFailureInScanOrder ==
    vresult # "" => vresult = ScanOrderVerdict(vpattern)

\* a duplicate destination was reported for a pattern that also holds a
\* coordinate out of range
C3_Witness ==
    /\ vresult = ErrDuplicate
    /\ \E m \in PermsOf(vpattern) : ~CoordsInRange(m)


\* ------------------------------------------------------------------------
\* the colours of a pattern as a 2x2 grid, row-major
PatternColors(p) == [y \in 0..1 |-> [x \in 0..1 |-> p[y][x].color]]

\* C4: with iterations = 1 no expansion sweep runs and the 2x2 grid returned
\* holds the pattern's four colours in row-major order, whatever decay is.
C4_OneIterationReturnsSeed ==
    (pc = "done" /\ iterations = 1) =>
        /\ sweeps = 0
        /\ ~wrote
        /\ output = PatternColors(pattern)

\* the base pattern returned for iterations = 1 under a decay of 0.5
C4_Witness ==
    /\ pc = "done" /\ iterations = 1
    /\ decay = Lit(5)
    /\ pattern = BasePattern

\* ------------------------------------------------------------------------
\* C5 as claimed: for iterations = 2 and decay = 1.0 the quadrant of parent
\* cell (y, x) holds exactly the seed colours permuted by the symmetry of
\* pixel (y, x), all four channels.
C5_DecayOneQuadrantsAreSeedColors ==
    (pc = "done" /\ iterations = 2 /\ decay = One) =>
        \A y \in 0..1, x \in 0..1, dy \in 0..1, dx \in 0..1 :
            output[2 * y + dy][2 * x + dx]
                = Apply(pattern[y][x].perm, pattern)[dy][dx].color

\* ------------------------------------------------------------------------
\* the steps generate_fractal has left: one per cell of every sweep to come,
\* one per sweep for its loop test, one for the return
RECURSIVE StepsLeft(_, _)
StepsLeft(cs, fs) ==
    IF cs < fs THEN cs * cs + 1 + StepsLeft(cs * 2, fs) ELSE 0

C6_Rank ==
    CASE pc = "load"  -> 3 + StepsLeft(2, Pow2(iterations))
      [] pc = "start" -> 2 + StepsLeft(2, Pow2(iterations))
      [] pc = "while" -> 1 + StepsLeft(current_size, final_size)
      [] pc = "cells" -> StepsLeft(current_size, final_size) - cursor
      [] OTHER        -> 0

C6_Safe ==
    iterations >= 1 =>
        /\ pc # "panic"
        /\ pc \in {"while", "cells", "done"} =>
              /\ final_size = Pow2(iterations)
              /\ DOMAIN result = 0..(final_size - 1)
              /\ \A y \in DOMAIN result : DOMAIN result[y] = 0..(final_size - 1)
              /\ sweeps <= iterations - 1
        /\ pc = "cells" =>
              LET c == RevOrder(cursor, current_size)
              IN  /\ cursor < current_size * current_size
                  /\ c[1] \in 0..(final_size - 1) /\ c[2] \in 0..(final_size - 1)
                  /\ BlockInside(final_size, c[1], c[2])
        /\ pc = "done" =>
              /\ sweeps = iterations - 1
              /\ DOMAIN output = 0..(Pow2(iterations) - 1)
              /\ \A y \in DOMAIN output :
                    DOMAIN output[y] = 0..(Pow2(iterations) - 1)

\* C6: on a validated pattern, iterations >= 1 and decay in [0, 1],
\* generate_fractal is total: every step brings the return nearer, every
\* read and write stays inside the grid of side 2^iterations, nothing is
\* raised, the loop makes exactly iterations - 1 sweeps and the grid returned
\* is square with side 2^iterations.
C6_GeneratorIsTotal ==
    /\ []C6_Safe
    /\ [][iterations >= 1 => C6_Rank' < C6_Rank]_vars

\* a run of MaxIter iterations has returned
C6_Witness ==
    /\ pc = "done" /\ iterations = MaxIter /\ iterations >= 2
    /\ sweeps = iterations - 1
    /\ Cardinality(DOMAIN output) = Pow2(iterations)


\* ------------------------------------------------------------------------
\* the cell expanded last, and whether blend is still the one it was
\* expanded under (a new sweep has not begun since)
LastCell ==
    IF pc = "cells" /\ cursor > 0 THEN RevOrder(cursor - 1, current_size)
    ELSE <<0, 0>>
JustExpanded == wrote /\ ~(pc = "cells" /\ cursor = 0)

\* the colours written for the cell expanded last, and the colours of the
\* sub-pattern permuted by that cell's symmetry
ChildColor(dy, dx) ==
    result[2 * LastCell[1] + dy][2 * LastCell[2] + dx].color
SubColor(dy, dx) == Apply(pixel.perm, pattern)[dy][dx].color

\* the spacing of the floats just below 1.0 (2^-24 for f32)
UlpBelowOne == Pow2(FracBits - MantBits)

Near(a, b, tol) == a - b <= tol /\ b - a <= tol
ColorNear(c, d, tol) ==
    /\ Near(c.r, d.r, tol) /\ Near(c.g, d.g, tol)
    /\ Near(c.b, d.b, tol) /\ Near(c.a, d.a, tol)

\* C7 as claimed: an opaque cell (alpha = 1) blends with factor 1 and its
\* four children are the permuted sub-pattern's own colours; a transparent
\* cell (alpha = 0) blends with factor blend.
C7_OpaqueBlendsWithOne ==
    JustExpanded =>
        /\ alpha = One =>
              /\ blend_factor = One
              /\ \A dy \in 0..1, dx \in 0..1 : ChildColor(dy, dx) = SubColor(dy, dx)
        /\ alpha = 0 => blend_factor = blend

\* C7 as amended: a transparent cell (alpha = 0) blends with factor exactly
\* 1, so that each channel of its four children is the sub-pattern's channel
\* up to the rounding of a + (b - a), within one spacing of the floats below
\* 1; an opaque cell (alpha = 1) blends with factor 1 - (1 - blend), which is
\* blend when blend >= 0.5 and within half that spacing of blend otherwise.
C7_TransparentBlendsWithOne ==
    JustExpanded =>
        /\ alpha = 0 =>
              /\ blend_factor = One
              /\ \A dy \in 0..1, dx \in 0..1 :
                    ColorNear(ChildColor(dy, dx), SubColor(dy, dx), UlpBelowOne)
        /\ alpha = One =>
              /\ 2 * blend >= One => blend_factor = blend
              /\ Near(2 * blend_factor, 2 * blend, UlpBelowOne)

\* an opaque cell has been expanded with a factor below 1, the running blend
C7_Witness ==
    /\ JustExpanded
    /\ alpha = One
    /\ blend_factor = blend /\ blend < One /\ blend > 0
    /\ \E dy \in 0..1, dx \in 0..1 : ChildColor(dy, dx) # SubColor(dy, dx)

\* ------------------------------------------------------------------------
\* The double-buffered expansion: level cs is read from grid, which is left
\* alone, and level 2 * cs is built as a new grid.  With always, the composed
\* symmetry is stored at every level.
RefExpand(grid, cs, fs, p, bl, always) ==
    [y \in 0..(2 * cs - 1) |-> [x \in 0..(2 * cs - 1) |->
        LET px == grid[y \div 2][x \div 2]
        IN  ExpandPixel(px, p, BlendFactor(bl, px.color.a),
                        always \/ cs * 2 < fs)[y % 2][x % 2]]]

RECURSIVE DoubleBuffered(_, _, _, _, _, _, _)
DoubleBuffered(grid, cs, fs, p, bl, d, always) ==
    IF cs < fs
    THEN DoubleBuffered(RefExpand(grid, cs, fs, p, FMul(bl, d), always),
                        cs * 2, fs, p, FMul(bl, d), d, always)
    ELSE grid

RefColors(always) ==
    ExtractColors(DoubleBuffered(pattern, 2, Pow2(iterations), pattern, One,
                                 decay, always))

\* C8: in every sweep each cell still holds its start-of-sweep value when it
\* is read, and the grid returned is the one a double-buffered expansion
\* returns.
C8_InPlaceIsDoubleBuffered ==
    /\ readFresh
    /\ pc = "done" => output = RefColors(FALSE)

\* the base pattern expanded through two sweeps or more
C8_Witness ==
    /\ pc = "done" /\ iterations >= 3
    /\ pattern = BasePattern
    /\ readFresh

\* ------------------------------------------------------------------------
\* the sweep (1 the first) the last expansion belongs to
SweepOfLast == IF pc = "cells" /\ cursor > 0 THEN sweeps + 1 ELSE sweeps

\* C9: the symmetry is reset to identity on the last sweep and on no other,
\* and the colours returned are those of the variant that stores the
\* composed symmetry on every sweep.
C9_ResetIsUnobservable ==
    /\ wrote => (new_perm_reset <=> SweepOfLast = iterations - 1)
    /\ pc = "done" => output = RefColors(TRUE)

\* a run of two sweeps or more, seeded with a symmetry other than the
\* identity, has returned after a reset
C9_Witness ==
    /\ pc = "done" /\ iterations >= 3
    /\ new_perm_reset
    /\ PermsOf(pattern) # {Identity}
    /\ \A y \in DOMAIN result, x \in DOMAIN result : result[y][x].perm = Identity

\* ------------------------------------------------------------------------
\* the dihedral group of the square: the bijections that send the diagonal
\* (0,0), (1,1) to a diagonal
Opposite(c) == <<1 - c[1], 1 - c[2]>>
Dihedral == {m \in Bijections : m[4] = Opposite(m[1])}

StoredPerms ==
    {result[y][x].perm : y \in DOMAIN result, x \in DOMAIN result}

\* C10 as claimed: for every validated pattern, every symmetry stored in a
\* grid cell is an element of the dihedral group.
C10_OnlyDihedralStored ==
    pc \in {"while", "cells", "done"} => StoredPerms \subseteq Dihedral

\* C10 as amended: for every validated pattern whose four symmetries are
\* dihedral, every symmetry stored in a grid cell, at any sweep, is dihedral.
C10_DihedralSeedStaysDihedral ==
    (pc \in {"while", "cells", "done"} /\ PermsOf(pattern) \subseteq Dihedral)
        => StoredPerms \subseteq Dihedral

\* from a dihedral seed a composed symmetry that is none of the five named
\* ones has been stored
C10_Witness ==
    /\ pc = "cells" /\ wrote
    /\ PermsOf(pattern) \subseteq Dihedral
    /\ \E m \in StoredPerms : m \notin NamedPerms

\* ------------------------------------------------------------------------
ChannelsInUnit(c) ==
    InUnit(c.r) /\ InUnit(c.g) /\ InUnit(c.b) /\ InUnit(c.a)

\* C11: for a validated pattern, iterations >= 1 and decay in [0, 1], at
\* every point of generate_fractal the running blend, every blend factor
\* computed and every channel of every cell of the grid lie in [0, 1], and
\* so does every channel of the grid returned.
C11_UnitIntervalKept ==
    (pc \in {"while", "cells", "done"} /\ iterations >= 1 /\ InUnit(decay))
        => /\ InUnit(blend)
           /\ InUnit(blend_factor) /\ InUnit(alpha)
           /\ \A y \in DOMAIN result, x \in DOMAIN result :
                 ChannelsInUnit(result[y][x].color)
           /\ pc = "done" =>
                 \A y \in DOMAIN output, x \in DOMAIN output :
                     ChannelsInUnit(output[y][x])

\* a run of two sweeps or more has returned after blending with a factor
\* strictly between 0 and 1, and channels of the grid returned sit on both
\* ends of the interval and strictly inside it
C11_Witness ==
    /\ pc = "done" /\ iterations >= 3
    /\ 0 < blend /\ blend < One
    /\ 0 < blend_factor /\ blend_factor < One
    /\ \E y \in DOMAIN output, x \in DOMAIN output : output[y][x].g = One
    /\ \E y \in DOMAIN output, x \in DOMAIN output : output[y][x].b = 0
    /\ \E y \in DOMAIN output, x \in DOMAIN output :
          0 < output[y][x].r /\ output[y][x].r < One

\* ------------------------------------------------------------------------
Destinations(m) == {m[i] : i \in 1..4}

\* the mapping the verdict is about: that of the first pixel, row-major,
\* with an entry out of range or repeated (the last pixel's if there is none)
ExaminedLast(p) ==
    LET n == CHOOSE n1 \in 0..3 :
                /\ n1 = 3 \/ \E i \in 1..4 : BadEntry(PermAt(p, n1), i)
                /\ \A n2 \in 0..(n1 - 1) :
                      \A i \in 1..4 : ~BadEntry(PermAt(p, n2), i)
    IN  PermAt(p, n)

\* the first entry of m that repeats an earlier one
FirstRepeat(m) ==
    CHOOSE i \in 1..4 :
        /\ \E j \in 1..(i - 1) : m[j] = m[i]
        /\ \A i2 \in 1..(i - 1) : \A j \in 1..(i2 - 1) : m[j] # m[i2]

\* C12 as claimed: the failure "must use all positions" is never returned,
\* and a mapping with only 3 distinct destinations is always reported as a
\* duplicate mapping.
C12_ThreeDistinctIsDuplicate ==
    vresult # "" =>
        /\ vresult # ErrIncomplete
        /\ (/\ ColorsInRange(vpattern)
            /\ Cardinality(Destinations(ExaminedLast(vpattern))) = 3)
              => vresult = ErrDuplicate

\* C12 as amended: the failure "must use all positions" is never returned,
\* since a mapping whose 4 entries all pass the loop has 4 in-range, pairwise
\* distinct destinations; a pattern with a mapping of fewer than 4 distinct
\* destinations is never accepted, and a mapping with only 3 distinct
\* destinations is reported as a duplicate mapping, unless one of its pairs
\* ahead of the first repeated one is out of range: then it is reported as a
\* coordinate out of range.
C12_CompletenessNeverFails ==
    vresult # "" =>
        /\ vresult # ErrIncomplete
        /\ \A m \in PermsOf(vpattern) :
              /\ (\A i \in 1..4 : ~BadEntry(m, i))
                    => CoordsInRange(m) /\ Cardinality(Destinations(m)) = 4
              /\ Cardinality(Destinations(m)) < 4 => vresult # ValidOk
        /\ (/\ ColorsInRange(vpattern)
            /\ Cardinality(Destinations(ExaminedLast(vpattern))) = 3)
              => LET m == ExaminedLast(vpattern)
                 IN  vresult =
                        IF \E i \in 1..(FirstRepeat(m) - 1) : m[i] \notin Cells
                        THEN ErrCoord ELSE ErrDuplicate

\* a mapping of 4 in-range pairs on 3 distinct destinations, the fourth pair
\* being the repeated one, was reported as a duplicate mapping
C12_Witness ==
    /\ vresult = ErrDuplicate
    /\ ColorsInRange(vpattern)
    /\ LET m == ExaminedLast(vpattern)
       IN  /\ CoordsInRange(m)
           /\ Cardinality(Destinations(m)) = 3
           /\ FirstRepeat(m) = 4

=============================================================================
